---- MODULE Spec2Model ----
(***************************************************************************)
(* TEI-to-JSON core of pdl-deployment (convert_tei_to_json.py and its copy *)
(* in import_tei_to_postgres.py): the marking pass, the serialisation and  *)
(* reserved rename, the generic conversion (xmltodict.parse) and the       *)
(* reconciliation pass, run over one parsed document by parse_tei_file     *)
(* (Spec), and the loops of convert_directory and import_batch over a list *)
(* of files (SpecBatch).                                                   *)
(*                                                                         *)
(* Representation.                                                         *)
(*   A Python str that holds markup text is a sequence of tokens; the      *)
(*   token " " is whitespace, every other token is non-blank and has no    *)
(*   whitespace at its ends.  A name is a sequence of tokens as well, so   *)
(*   that '@' + key, key.replace(ns, '') and key.startswith('@') are the   *)
(*   operations the code performs.                                         *)
(*   A str value is Txt(t) (text that is not a JSON document) or the       *)
(*   output of json.dumps, Dumps(v); json.loads decodes the latter and     *)
(*   raises JSONDecodeError on the former.                                 *)
(*   A JSON value is a str value, Dict(f), List(s), Null or Num(n).        *)
(*   An lxml element is [tag, attrib, text, children, tail]; text and tail *)
(*   None are the empty sequence.                                          *)
(***************************************************************************)
EXTENDS Integers, Sequences, FiniteSets, TLC

\* one document in parse_tei_file
VARIABLES pc, src, tree, todo, elem, mixed, xml_str, json_data, tei_xml

\* a run of convert_directory or of import_batch over a list of files
VARIABLES mode, files, pos, outputs, converted, failed, db

coreVars == <<pc, src, tree, todo, elem, mixed, xml_str, json_data, tei_xml>>

batchVars == <<mode, files, pos, outputs, converted, failed, db>>

vars == <<pc, src, tree, todo, elem, mixed, xml_str, json_data, tei_xml,
          mode, files, pos, outputs, converted, failed, db>>

\* Largest number of children of the element under the entry.
MaxKids == 2

-----------------------------------------------------------------------------
\* Names

TEI == "{http://www.tei-c.org/ns/1.0}"

XML_NS == "{http://www.w3.org/XML/1998/namespace}"

AUX == <<"mixed-content-json">>

CONTENT == <<"content">>

TYPE == <<"type">>

VALUE == <<"value">>

CDATA == <<>>

T(local) == <<TEI, local>>

-----------------------------------------------------------------------------
\* Values

Txt(t) == [k |-> "txt", t |-> t]

Dumps(v) == [k |-> "json", j |-> v]

Dict(f) == [k |-> "dict", d |-> f]

List(s) == [k |-> "list", l |-> s]

Num(n) == [k |-> "num", n |-> n]

Null == [k |-> "null"]

Raised == [k |-> "raise"]

EmptyMap == [x \in {} |-> Null]

IsStr(v) == v.k \in {"txt", "json"}

\* d with key set to v (Python d[key] = v)
Put(d, key, v) == [x \in DOMAIN d \cup {key} |-> IF x = key THEN v ELSE d[x]]

\* d without the keys of ks (Python d.pop(k, None) for k in ks)
Drop(d, ks) == [x \in DOMAIN d \ ks |-> d[x]]

\* dict.update(m)
Update(d, m) == [x \in DOMAIN d \cup DOMAIN m |-> IF x \in DOMAIN m THEN m[x] ELSE d[x]]

-----------------------------------------------------------------------------
\* str operations

IsSpace(tok) == tok = " "

RECURSIVE LStrip(_)
LStrip(s) ==
    IF s # <<>> /\ IsSpace(Head(s)) THEN LStrip(Tail(s)) ELSE s

RECURSIVE RStrip(_)
RStrip(s) ==
    IF s # <<>> /\ IsSpace(s[Len(s)]) THEN RStrip(SubSeq(s, 1, Len(s) - 1)) ELSE s

\* str.strip()
Strip(s) == RStrip(LStrip(s))

\* Python truth of  s and s.strip()
NonBlank(s) == Strip(s) # <<>>

\* key.replace('{http://www.tei-c.org/ns/1.0}', '')
CleanKey(key) == SelectSeq(key, LAMBDA tok : tok # TEI)

\* f"@{clean_key}"
At(key) == <<"@">> \o key

\* key.startswith('@')
StartsWithAt(key) == key # <<>> /\ Head(key) = "@"

-----------------------------------------------------------------------------
\* lxml elements

Elem(tag, attrib, text, children, tail) ==
    [tag |-> tag, attrib |-> attrib, text |-> text, children |-> children, tail |-> tail]

RECURSIVE Node(_, _)
Node(e, p) == IF p = <<>> THEN e ELSE Node(e.children[Head(p)], Tail(p))

RECURSIVE SetAttr(_, _, _, _)
\* elem.set(name, v) on the element at path p
SetAttr(e, p, name, v) ==
    IF p = <<>>
    THEN [e EXCEPT !.attrib = Put(e.attrib, name, v)]
    ELSE [e EXCEPT !.children[Head(p)] = SetAttr(e.children[Head(p)], Tail(p), name, v)]

RECURSIVE Concat(_)
Concat(ss) == IF ss = <<>> THEN <<>> ELSE Head(ss) \o Concat(Tail(ss))

RECURSIVE Paths(_)
\* the paths of e and its descendants, in document order
Paths(e) ==
    <<<<>>>> \o Concat([i \in 1..Len(e.children) |->
                 LET sub == Paths(e.children[i])
                 IN [j \in 1..Len(sub) |-> <<i>> \o sub[j]]])

PathSet(e) == {Paths(e)[i] : i \in 1..Len(Paths(e))}

-----------------------------------------------------------------------------
\* Mixed-content serializer

TextSeg(t) == Dict((TYPE :> Txt(<<"text">>)) @@ (VALUE :> Txt(t)))

\* child_data: "type" and "value", then one assignment per child attribute
ChildData(child) ==
    LET keys == {CleanKey(a) : a \in DOMAIN child.attrib}
        base == (TYPE :> Txt(CleanKey(child.tag))) @@ (VALUE :> Txt(child.text))
    IN  Dict([x \in {TYPE, VALUE} \cup keys |->
                IF x \in keys
                THEN child.attrib[CHOOSE a \in DOMAIN child.attrib : CleanKey(a) = x]
                ELSE base[x]])

\* the segments one child contributes: its data, then its tail if non-blank
ChildSegments(child) ==
    <<ChildData(child)>> \o
    (IF NonBlank(child.tail) THEN <<TextSeg(child.tail)>> ELSE <<>>)

\* ContentOf with the tails collected after all the children
ContentOf_TailsLast(element) ==
    (IF NonBlank(element.text) THEN <<TextSeg(element.text)>> ELSE <<>>) \o
    [i \in 1..Len(element.children) |-> ChildData(element.children[i])] \o
    Concat([i \in 1..Len(element.children) |->
              IF NonBlank(element.children[i].tail)
              THEN <<TextSeg(element.children[i].tail)>> ELSE <<>>])

\* the content list of an element
ContentOf(element) ==
    (IF NonBlank(element.text) THEN <<TextSeg(element.text)>> ELSE <<>>) \o
    Concat([i \in 1..Len(element.children) |-> ChildSegments(element.children[i])])

\* the element's own attributes under '@' keys
OwnAttributes(element) ==
    LET keys == {At(CleanKey(a)) : a \in DOMAIN element.attrib}
    IN  [x \in keys |->
            element.attrib[CHOOSE a \in DOMAIN element.attrib : At(CleanKey(a)) = x]]

serialize_mixed_content(element) ==
    LET result    == OwnAttributes(element)
        has_mixed == NonBlank(element.text) \/ Len(element.children) > 0
    IN  IF has_mixed
        THEN Dict(Put(result, CONTENT, List(ContentOf(element))))
        ELSE Dict(Put(result, VALUE, Txt(element.text)))

-----------------------------------------------------------------------------
\* Marking pass

mixed_content_xpaths == <<"note", "def", "quote", "cit", "bibl", "etym", "sense">>

\* tree.xpath('//tei:<name>'): the matching elements in document order
XPath(t, name) == SelectSeq(Paths(t), LAMBDA p : Node(t, p).tag = T(name))

\* the elements the two nested loops visit, in the order they visit them
WorkList(t) ==
    Concat([i \in 1..Len(mixed_content_xpaths) |-> XPath(t, mixed_content_xpaths[i])])

\* IsMixed with  has_text or has_children  in place of the conjunction
IsMixed_Or(e) ==
    LET has_text     == NonBlank(e.text)
        has_children == Len(e.children) > 0
        has_tail     == \E i \in 1..Len(e.children) : NonBlank(e.children[i].tail)
    IN  (has_text \/ has_children) \/ has_tail

\* (has_text and has_children) or has_tail
IsMixed(e) ==
    LET has_text     == NonBlank(e.text)
        has_children == Len(e.children) > 0
        has_tail     == \E i \in 1..Len(e.children) : NonBlank(e.children[i].tail)
    IN  (has_text /\ has_children) \/ has_tail

-----------------------------------------------------------------------------
\* etree.tostring: the document as markup text.  A name is written as a
\* qualified name: the TEI namespace is the document's default namespace and
\* is declared on the root; the XML namespace has the reserved prefix xml.

XmlPrefixed(local) ==
    CASE local = "id"   -> "xml:id"
      [] local = "lang" -> "xml:lang"

QName(name) ==
    IF Len(name) = 2 /\ name[1] = TEI THEN <<name[2]>>
    ELSE IF Len(name) = 2 /\ name[1] = XML_NS THEN <<XmlPrefixed(name[2])>>
    ELSE name

QAttrib(attrib) ==
    [x \in {QName(a) : a \in DOMAIN attrib} |->
        attrib[CHOOSE a \in DOMAIN attrib : QName(a) = x]]

RECURSIVE Markup(_, _)
Markup(e, isRoot) ==
    [name     |-> QName(e.tag),
     attrs    |-> IF isRoot
                  THEN Put(QAttrib(e.attrib), <<"xmlns">>, Txt(<<TEI>>))
                  ELSE QAttrib(e.attrib),
     text     |-> e.text,
     children |-> [i \in 1..Len(e.children) |-> Markup(e.children[i], FALSE)],
     tail     |-> e.tail]

tostring(t) == Markup(t, TRUE)

-----------------------------------------------------------------------------
\* xml_str.replace('xml:id', 'xmlId').replace('xml:lang', 'xmlLang'): applied to
\* the whole text, that is to every name, text, tail and attribute value.

ReplaceTok(tok) ==
    CASE tok = "xml:id"   -> "xmlId"
      [] tok = "xml:lang" -> "xmlLang"
      [] OTHER            -> tok

ReplaceSeq(s) == [i \in 1..Len(s) |-> ReplaceTok(s[i])]

RECURSIVE ReplaceVal(_)
ReplaceVal(v) ==
    CASE v.k = "txt"  -> Txt(ReplaceSeq(v.t))
      [] v.k = "json" -> Dumps(ReplaceVal(v.j))
      [] v.k = "dict" ->
            Dict([x \in {ReplaceSeq(a) : a \in DOMAIN v.d} |->
                    ReplaceVal(v.d[CHOOSE a \in DOMAIN v.d : ReplaceSeq(a) = x])])
      [] v.k = "list" -> List([i \in 1..Len(v.l) |-> ReplaceVal(v.l[i])])
      [] OTHER        -> v

RECURSIVE ReplaceMarkup(_)
ReplaceMarkup(x) ==
    [name     |-> ReplaceSeq(x.name),
     attrs    |-> [a \in {ReplaceSeq(b) : b \in DOMAIN x.attrs} |->
                     ReplaceVal(x.attrs[CHOOSE b \in DOMAIN x.attrs : ReplaceSeq(b) = a])],
     text     |-> ReplaceSeq(x.text),
     children |-> [i \in 1..Len(x.children) |-> ReplaceMarkup(x.children[i])],
     tail     |-> ReplaceSeq(x.tail)]

-----------------------------------------------------------------------------
\* xmltodict.parse(xml_str, attr_prefix="", cdata_key="", force_list={...}),
\* with the library's defaults otherwise: attributes become keys without a
\* prefix, the character data directly inside an element is joined, stripped
\* and kept under the key "" (or is the element's value when the element has
\* neither attributes nor children), names are taken as written.

force_list == {<<"form">>, <<"sense">>, <<"cit">>, <<"usg">>, <<"ref">>,
               <<"bibl">>, <<"placeName">>, <<"note">>}

\* PushData without the force_list argument of the call
PushData_NoForceList(item, key, data) ==
    LET d == IF item = Null THEN EmptyMap ELSE item.d
    IN  IF key \in DOMAIN d
        THEN IF d[key].k = "list"
             THEN Dict(Put(d, key, List(Append(d[key].l, data))))
             ELSE Dict(Put(d, key, List(<<d[key], data>>)))
        ELSE Dict(Put(d, key, data))

\* push_data(item, key, data): a second value under a key makes a list
PushData(item, key, data) ==
    LET d == IF item = Null THEN EmptyMap ELSE item.d
    IN  IF key \in DOMAIN d
        THEN IF d[key].k = "list"
             THEN Dict(Put(d, key, List(Append(d[key].l, data))))
             ELSE Dict(Put(d, key, List(<<d[key], data>>)))
        ELSE IF key \in force_list
             THEN Dict(Put(d, key, List(<<data>>)))
             ELSE Dict(Put(d, key, data))

RECURSIVE PushAll(_, _, _)
\* the children's endElement calls, in document order
PushAll(item, names, values) ==
    IF names = <<>> THEN item
    ELSE PushAll(PushData(item, Head(names), Head(values)), Tail(names), Tail(values))

RECURSIVE ParseElement_AtPrefix(_)
\* ParseElement with the library's default attr_prefix, '@'
ParseElement_AtPrefix(x) ==
    LET attrs == IF DOMAIN x.attrs = {} THEN Null
                 ELSE Dict([a \in {At(b) : b \in DOMAIN x.attrs} |->
                              x.attrs[CHOOSE b \in DOMAIN x.attrs : At(b) = a]])
        n     == Len(x.children)
        item  == PushAll(attrs, [i \in 1..n |-> x.children[i].name],
                                [i \in 1..n |-> ParseElement_AtPrefix(x.children[i])])
        data  == Strip(x.text \o Concat([i \in 1..n |-> x.children[i].tail]))
    IN  IF item # Null
        THEN IF data # <<>> THEN PushData(item, CDATA, Txt(data)) ELSE item
        ELSE IF data # <<>> THEN Txt(data) ELSE Null

RECURSIVE ParseElement(_)
\* the value endElement pushes for one element
ParseElement(x) ==
    LET attrs == IF DOMAIN x.attrs = {} THEN Null ELSE Dict(x.attrs)
        n     == Len(x.children)
        item  == PushAll(attrs, [i \in 1..n |-> x.children[i].name],
                                [i \in 1..n |-> ParseElement(x.children[i])])
        \* the character data directly inside the element, joined and stripped
        data  == Strip(x.text \o Concat([i \in 1..n |-> x.children[i].tail]))
    IN  IF item # Null
        THEN IF data # <<>> THEN PushData(item, CDATA, Txt(data)) ELSE item
        ELSE IF data # <<>> THEN Txt(data) ELSE Null

xmltodict_parse(x) == PushData(Null, x.name, ParseElement(x))

-----------------------------------------------------------------------------
\* Reconciliation pass

\* {item.get('type') for item in data['content'] if isinstance(item, dict)}
InElementTypes(key, content) ==
    /\ content.k = "list"
    /\ \E i \in 1..Len(content.l) :
          /\ content.l[i].k = "dict"
          /\ TYPE \in DOMAIN content.l[i].d
          /\ content.l[i].d[TYPE] = Txt(key)

keys_to_remove(d) ==
    {key \in DOMAIN d :
        /\ key \notin {CONTENT, TYPE}
        /\ ~StartsWithAt(key)
        /\ InElementTypes(key, d[CONTENT])}

RECURSIVE clean_mixed_content_duplicates(_)
clean_mixed_content_duplicates(data) ==
    CASE data.k = "dict" ->
            LET d1 == IF CONTENT \in DOMAIN data.d
                      THEN LET popped == Drop(data.d, {CDATA})
                           IN  Drop(popped, keys_to_remove(popped))
                      ELSE data.d
            IN  Dict([x \in DOMAIN d1 |-> clean_mixed_content_duplicates(d1[x])])
      [] data.k = "list" ->
            List([i \in 1..Len(data.l) |-> clean_mixed_content_duplicates(data.l[i])])
      [] OTHER -> data

\* Merge without  del data['mixed-content-json']
Merge_KeepAux(d) ==
    IF AUX \notin DOMAIN d THEN Dict(d)
    ELSE LET s == d[AUX]
         IN  IF s.k = "txt" THEN Dict(d)
             ELSE IF s.k = "json" /\ s.j.k = "dict"
                  THEN Dict(Update(d, s.j.d))
             ELSE IF s.k = "json" /\ s.j \in {List(<<>>), Txt(<<>>)}
                  THEN Dict(d)
                  ELSE Raised

\* the try block: json.loads, data.update, del.  JSONDecodeError is caught;
\* update() with a value that is no mapping raises TypeError, which is not.
Merge(d) ==
    IF AUX \notin DOMAIN d THEN Dict(d)
    ELSE LET s == d[AUX]
         IN  IF s.k = "txt" THEN Dict(d)
             ELSE IF s.k = "json" /\ s.j.k = "dict"
                  THEN Dict(Drop(Update(d, s.j.d), {AUX}))
             ELSE IF s.k = "json" /\ s.j \in {List(<<>>), Txt(<<>>)}
                  THEN Dict(Drop(d, {AUX}))
                  ELSE Raised

RECURSIVE extract_MergeAfterRecursion(_)
\* extract_mixed_content_from_json with the recursion over the values done
\* before the node's own auxiliary value is merged
extract_MergeAfterRecursion(data) ==
    CASE data.k = "dict" ->
            LET result == [x \in DOMAIN data.d |->
                              extract_MergeAfterRecursion(data.d[x])]
            IN  IF \E x \in DOMAIN result : result[x] = Raised
                THEN Raised
                ELSE LET m == Merge(result)
                     IN  IF m = Raised THEN Raised
                         ELSE clean_mixed_content_duplicates(m)
      [] data.k = "list" ->
            LET items == [i \in 1..Len(data.l) |->
                            extract_MergeAfterRecursion(data.l[i])]
            IN  IF \E i \in 1..Len(items) : items[i] = Raised
                THEN Raised
                ELSE List(items)
      [] OTHER -> data

RECURSIVE extract_mixed_content_from_json(_)
extract_mixed_content_from_json(data) ==
    CASE data.k = "dict" ->
            LET m == Merge(data.d)
            IN  IF m = Raised THEN Raised
                ELSE LET result == [x \in DOMAIN m.d |->
                                      extract_mixed_content_from_json(m.d[x])]
                     IN  IF \E x \in DOMAIN result : result[x] = Raised
                         THEN Raised
                         ELSE clean_mixed_content_duplicates(Dict(result))
      [] data.k = "list" ->
            LET items == [i \in 1..Len(data.l) |->
                            extract_mixed_content_from_json(data.l[i])]
            IN  IF \E i \in 1..Len(items) : items[i] = Raised
                THEN Raised
                ELSE List(items)
      [] OTHER -> data

-----------------------------------------------------------------------------
\* The reconciliation pass step by step: the order in which the calls of
\* extract_mixed_content_from_json and clean_mixed_content_duplicates reach
\* the nodes.  A node is named by its path of keys and list positions from the
\* root.  (The values of a dict are gone through in some fixed order.)

UnderKey(path, key) == Append(path, [key |-> key, idx |-> 0])

UnderIdx(path, i) == Append(path, [key |-> <<>>, idx |-> i])

\* the node at path has its auxiliary value merged / its keys checked against
\* its content list
Step(op, path) == [op |-> op, at |-> path]

RECURSIVE KeySeq(_)
KeySeq(S) ==
    IF S = {} THEN <<>>
    ELSE LET x == CHOOSE y \in S : TRUE IN <<x>> \o KeySeq(S \ {x})

RECURSIVE CleanSteps(_, _)
\* the checks one call of clean_mixed_content_duplicates makes
CleanSteps(data, path) ==
    CASE data.k = "dict" ->
            LET d1   == IF CONTENT \in DOMAIN data.d
                        THEN LET popped == Drop(data.d, {CDATA})
                             IN  Drop(popped, keys_to_remove(popped))
                        ELSE data.d
                keys == KeySeq(DOMAIN d1)
            IN  <<Step("dedup", path)>>
                \o Concat([i \in 1..Len(keys) |->
                              CleanSteps(d1[keys[i]], UnderKey(path, keys[i]))])
      [] data.k = "list" ->
            Concat([i \in 1..Len(data.l) |-> CleanSteps(data.l[i], UnderIdx(path, i))])
      [] OTHER -> <<>>

RECURSIVE ExtractSteps_CleanFirst(_, _)
\* ExtractSteps with the node cleaned before the recursion over its values
ExtractSteps_CleanFirst(data, path) ==
    CASE data.k = "dict" ->
            LET m == Merge(data.d)
            IN  IF m = Raised THEN [v |-> Raised, s |-> <<Step("merge", path)>>]
                ELSE LET c    == clean_mixed_content_duplicates(m)
                         keys == KeySeq(DOMAIN c.d)
                         subs == [i \in 1..Len(keys) |->
                                    ExtractSteps_CleanFirst(c.d[keys[i]], UnderKey(path, keys[i]))]
                         result == [x \in DOMAIN c.d |->
                                      subs[CHOOSE i \in 1..Len(keys) : keys[i] = x].v]
                     IN  [v |-> IF \E x \in DOMAIN result : result[x] = Raised
                                THEN Raised
                                ELSE Dict(result),
                          s |-> <<Step("merge", path)>>
                                \o CleanSteps(m, path)
                                \o Concat([i \in 1..Len(keys) |-> subs[i].s])]
      [] data.k = "list" ->
            LET subs == [i \in 1..Len(data.l) |->
                           ExtractSteps_CleanFirst(data.l[i], UnderIdx(path, i))]
            IN  [v |-> IF \E i \in 1..Len(subs) : subs[i].v = Raised
                       THEN Raised
                       ELSE List([i \in 1..Len(subs) |-> subs[i].v]),
                 s |-> Concat([i \in 1..Len(subs) |-> subs[i].s])]
      [] OTHER -> [v |-> data, s |-> <<>>]

RECURSIVE ExtractSteps(_, _)
\* extract_mixed_content_from_json: the value it returns (v) and the steps it
\* takes (s): the merge of the node, the calls for its values, then the call
\* of clean_mixed_content_duplicates on the result
ExtractSteps(data, path) ==
    CASE data.k = "dict" ->
            LET m == Merge(data.d)
            IN  IF m = Raised THEN [v |-> Raised, s |-> <<Step("merge", path)>>]
                ELSE LET keys == KeySeq(DOMAIN m.d)
                         subs == [i \in 1..Len(keys) |->
                                    ExtractSteps(m.d[keys[i]], UnderKey(path, keys[i]))]
                         result == [x \in DOMAIN m.d |->
                                      subs[CHOOSE i \in 1..Len(keys) : keys[i] = x].v]
                     IN  [v |-> IF \E x \in DOMAIN result : result[x] = Raised
                                THEN Raised
                                ELSE clean_mixed_content_duplicates(Dict(result)),
                          s |-> <<Step("merge", path)>>
                                \o Concat([i \in 1..Len(keys) |-> subs[i].s])
                                \o (IF \E x \in DOMAIN result : result[x] = Raised
                                    THEN <<>>
                                    ELSE CleanSteps(Dict(result), path))]
      [] data.k = "list" ->
            LET subs == [i \in 1..Len(data.l) |->
                           ExtractSteps(data.l[i], UnderIdx(path, i))]
            IN  [v |-> IF \E i \in 1..Len(subs) : subs[i].v = Raised
                       THEN Raised
                       ELSE List([i \in 1..Len(subs) |-> subs[i].v]),
                 s |-> Concat([i \in 1..Len(subs) |-> subs[i].s])]
      [] OTHER -> [v |-> data, s |-> <<>>]

-----------------------------------------------------------------------------
\* The xpath queries of parse_tei_file

\* the text() children of an element: its text and the tails of its children
TextNodes(e) ==
    (IF e.text = <<>> THEN <<>> ELSE <<e.text>>)
    \o Concat([i \in 1..Len(e.children) |->
                  IF e.children[i].tail = <<>> THEN <<>> ELSE <<e.children[i].tail>>])

\* [@type="ty"]; no predicate when ty is empty
HasType(e, ty) ==
    ty = <<>> \/ (<<"type">> \in DOMAIN e.attrib /\ e.attrib[<<"type">>] = Txt(ty))

\* //tei:<name>[@type="ty"]
Typed(t, name, ty) == SelectSeq(XPath(t, name), LAMBDA p : HasType(Node(t, p), ty))

\* //tei:<name>[@type="ty"]/text()
SelfTexts(t, name, ty) ==
    LET ps == Typed(t, name, ty)
    IN  Concat([i \in 1..Len(ps) |-> TextNodes(Node(t, ps[i]))])

\* //tei:<parent>[@type="ty"]/tei:<child>/text()
ChildTexts(t, parent, ty, child) ==
    LET ps == Typed(t, parent, ty)
    IN  Concat([i \in 1..Len(ps) |->
            LET e == Node(t, ps[i])
            IN  Concat([j \in 1..Len(e.children) |->
                    IF e.children[j].tag = T(child)
                    THEN TextNodes(e.children[j])
                    ELSE <<>>])])

\* //tei:entry/@xml:id
EntryIds(t) ==
    LET ps  == XPath(t, "entry")
        key == <<XML_NS, "id">>
    IN  Concat([i \in 1..Len(ps) |->
            IF key \in DOMAIN Node(t, ps[i]).attrib
            THEN <<Node(t, ps[i]).attrib[key].t>>
            ELSE <<>>])

\* extract_text with a default that is not empty
extract_text_DefaultUnknown(results) == IF results = <<>> THEN <<"unknown">> ELSE results[1]

\* results[0] if results else default, with default = ''
extract_text(results) == IF results = <<>> THEN <<>> ELSE results[1]

\* the members of a sequence, as list(set(...)) keeps them: without
\* duplicates, in no particular order
AsSet(results) == {results[i] : i \in 1..Len(results)}

RECURSIVE SetToSeq(_)
SetToSeq(S) ==
    IF S = {} THEN <<>>
    ELSE LET x == CHOOSE y \in S : TRUE IN <<x>> \o SetToSeq(S \ {x})

RECURSIVE SplitHead(_)
\* entry_id.split('__')[0]
SplitHead(s) ==
    IF s = <<>> \/ Head(s) = "__" THEN <<>> ELSE <<Head(s)>> \o SplitHead(Tail(s))

\* Wb with the part before the last separator
Wb_BeforeLast(entry_id) ==
    IF \E i \in 1..Len(entry_id) : entry_id[i] = "__"
    THEN SubSeq(entry_id, 1,
                (CHOOSE i \in 1..Len(entry_id) :
                    /\ entry_id[i] = "__"
                    /\ \A j \in (i + 1)..Len(entry_id) : entry_id[j] # "__") - 1)
    ELSE <<"unknown">>

\* entry_id.split('__')[0] if '__' in entry_id else 'unknown'
Wb(entry_id) ==
    IF \E i \in 1..Len(entry_id) : entry_id[i] = "__"
    THEN SplitHead(entry_id)
    ELSE <<"unknown">>

\* examples[:5]
MaxExamples == 5

RECURSIVE Join(_)
\* ' '.join(parts)
Join(parts) ==
    IF parts = <<>> THEN <<>>
    ELSE IF Len(parts) = 1 THEN parts[1]
    ELSE parts[1] \o <<" ">> \o Join(Tail(parts))

-----------------------------------------------------------------------------
\* tei_to_json and parse_tei_file as functions of the parsed document

RECURSIVE MarkAll(_, _)
\* the loop of handle_mixed_content_elements over the elements it visits
MarkAll(t, work) ==
    IF work = <<>> THEN t
    ELSE LET e == Node(t, Head(work))
         IN  MarkAll(IF IsMixed(e)
                     THEN SetAttr(t, Head(work), AUX, Dumps(serialize_mixed_content(e)))
                     ELSE t,
                     Tail(work))

handle_mixed_content_elements(t) == MarkAll(t, WorkList(t))

\* the tree as tei_to_json leaves it, and the value it returns (or Raised)
tei_to_json(t) ==
    LET marked == handle_mixed_content_elements(t)
    IN  [tree |-> marked,
         data |-> extract_mixed_content_from_json(
                      xmltodict_parse(ReplaceMarkup(tostring(marked))))]

\* the record parse_tei_file returns, or Raised
parse_tei_file(t) ==
    LET entry_id    == extract_text(EntryIds(t))
        lemma       == extract_text(ChildTexts(t, "form", <<"lemma">>, "orth"))
        variants    == AsSet(ChildTexts(t, "form", <<"variant">>, "orth")
                             \o ChildTexts(t, "form", <<"search">>, "orth"))
        definitions == ChildTexts(t, "sense", <<>>, "def")
        regions     == AsSet(SelfTexts(t, "usg", <<"geographic">>))
        run         == tei_to_json(t)
        examples    == ChildTexts(run.tree, "cit", <<"example">>, "quote")
    IN  IF entry_id = <<>> \/ run.data = Raised
        THEN Raised
        ELSE [k              |-> "record",
              id             |-> entry_id,
              wb             |-> Wb(entry_id),
              lemma          |-> lemma,
              lemma_variants |-> variants,
              definitions    |-> definitions,
              regions        |-> regions,
              data           |-> run.data,
              tei_xml        |-> tostring(run.tree),
              search_text    |-> Join(<<lemma>> \o SetToSeq(variants) \o definitions
                                      \o SubSeq(examples, 1,
                                                IF Len(examples) < MaxExamples
                                                THEN Len(examples) ELSE MaxExamples))]

-----------------------------------------------------------------------------
\* The copy of the core in import_tei_to_postgres.py (class TEIImporter),
\* transcribed from that file.  The operations of str, lxml and xmltodict and
\* the xpath queries are those defined above.

\* child_data: "type" and "value", then one assignment per child attribute
Imp_ChildData(child) ==
    LET keys == {CleanKey(a) : a \in DOMAIN child.attrib}
        base == (TYPE :> Txt(CleanKey(child.tag))) @@ (VALUE :> Txt(child.text))
    IN  Dict([x \in {TYPE, VALUE} \cup keys |->
                IF x \in keys
                THEN child.attrib[CHOOSE a \in DOMAIN child.attrib : CleanKey(a) = x]
                ELSE base[x]])

\* the segments one child contributes: its data, then its tail if non-blank
Imp_ChildSegments(child) ==
    <<Imp_ChildData(child)>> \o
    (IF NonBlank(child.tail) THEN <<TextSeg(child.tail)>> ELSE <<>>)

\* the content list of an element
Imp_ContentOf(element) ==
    (IF NonBlank(element.text) THEN <<TextSeg(element.text)>> ELSE <<>>) \o
    Concat([i \in 1..Len(element.children) |-> Imp_ChildSegments(element.children[i])])

\* the element's own attributes under '@' keys
Imp_OwnAttributes(element) ==
    LET keys == {At(CleanKey(a)) : a \in DOMAIN element.attrib}
    IN  [x \in keys |->
            element.attrib[CHOOSE a \in DOMAIN element.attrib : At(CleanKey(a)) = x]]

Imp_serialize_mixed_content(element) ==
    LET result    == Imp_OwnAttributes(element)
        has_mixed == NonBlank(element.text) \/ Len(element.children) > 0
    IN  IF has_mixed
        THEN Dict(Put(result, CONTENT, List(Imp_ContentOf(element))))
        ELSE Dict(Put(result, VALUE, Txt(element.text)))

\* Imp_mixed_content_xpaths without sense
Imp_mixed_content_xpaths_NoSense == <<"note", "def", "quote", "cit", "bibl", "etym">>

\* mixed_content_xpaths
Imp_mixed_content_xpaths == <<"note", "def", "quote", "cit", "bibl", "etym", "sense">>

\* the elements the two nested loops visit, in the order they visit them
Imp_WorkList(t) ==
    Concat([i \in 1..Len(Imp_mixed_content_xpaths) |-> XPath(t, Imp_mixed_content_xpaths[i])])

\* (has_text and has_children) or has_tail
Imp_IsMixed(e) ==
    LET has_text     == NonBlank(e.text)
        has_children == Len(e.children) > 0
        has_tail     == \E i \in 1..Len(e.children) : NonBlank(e.children[i].tail)
    IN  (has_text /\ has_children) \/ has_tail

Imp_ReplaceTok(tok) ==
    CASE tok = "xml:id"   -> "xmlId"
      [] tok = "xml:lang" -> "xmlLang"
      [] OTHER            -> tok

Imp_ReplaceSeq(s) == [i \in 1..Len(s) |-> Imp_ReplaceTok(s[i])]

RECURSIVE Imp_ReplaceVal(_)
Imp_ReplaceVal(v) ==
    CASE v.k = "txt"  -> Txt(Imp_ReplaceSeq(v.t))
      [] v.k = "json" -> Dumps(Imp_ReplaceVal(v.j))
      [] v.k = "dict" ->
            Dict([x \in {Imp_ReplaceSeq(a) : a \in DOMAIN v.d} |->
                    Imp_ReplaceVal(v.d[CHOOSE a \in DOMAIN v.d : Imp_ReplaceSeq(a) = x])])
      [] v.k = "list" -> List([i \in 1..Len(v.l) |-> Imp_ReplaceVal(v.l[i])])
      [] OTHER        -> v

RECURSIVE Imp_ReplaceMarkup(_)
Imp_ReplaceMarkup(x) ==
    [name     |-> Imp_ReplaceSeq(x.name),
     attrs    |-> [a \in {Imp_ReplaceSeq(b) : b \in DOMAIN x.attrs} |->
                     Imp_ReplaceVal(x.attrs[CHOOSE b \in DOMAIN x.attrs : Imp_ReplaceSeq(b) = a])],
     text     |-> Imp_ReplaceSeq(x.text),
     children |-> [i \in 1..Len(x.children) |-> Imp_ReplaceMarkup(x.children[i])],
     tail     |-> Imp_ReplaceSeq(x.tail)]

Imp_force_list == {<<"form">>, <<"sense">>, <<"cit">>, <<"usg">>, <<"ref">>,
               <<"bibl">>, <<"placeName">>, <<"note">>}

\* push_data(item, key, data): a second value under a key makes a list
Imp_PushData(item, key, data) ==
    LET d == IF item = Null THEN EmptyMap ELSE item.d
    IN  IF key \in DOMAIN d
        THEN IF d[key].k = "list"
             THEN Dict(Put(d, key, List(Append(d[key].l, data))))
             ELSE Dict(Put(d, key, List(<<d[key], data>>)))
        ELSE IF key \in Imp_force_list
             THEN Dict(Put(d, key, List(<<data>>)))
             ELSE Dict(Put(d, key, data))

RECURSIVE Imp_PushAll(_, _, _)
\* the children's endElement calls, in document order
Imp_PushAll(item, names, values) ==
    IF names = <<>> THEN item
    ELSE Imp_PushAll(Imp_PushData(item, Head(names), Head(values)), Tail(names), Tail(values))

RECURSIVE Imp_ParseElement(_)
\* the value endElement pushes for one element
Imp_ParseElement(x) ==
    LET attrs == IF DOMAIN x.attrs = {} THEN Null ELSE Dict(x.attrs)
        n     == Len(x.children)
        item  == Imp_PushAll(attrs, [i \in 1..n |-> x.children[i].name],
                                [i \in 1..n |-> Imp_ParseElement(x.children[i])])
        \* the character data directly inside the element, joined and stripped
        data  == Strip(x.text \o Concat([i \in 1..n |-> x.children[i].tail]))
    IN  IF item # Null
        THEN IF data # <<>> THEN Imp_PushData(item, CDATA, Txt(data)) ELSE item
        ELSE IF data # <<>> THEN Txt(data) ELSE Null

Imp_xmltodict_parse(x) == Imp_PushData(Null, x.name, Imp_ParseElement(x))

Imp_keys_to_remove(d) ==
    {key \in DOMAIN d :
        /\ key \notin {CONTENT, TYPE}
        /\ ~StartsWithAt(key)
        /\ InElementTypes(key, d[CONTENT])}

RECURSIVE Imp_clean_mixed_content_duplicates(_)
Imp_clean_mixed_content_duplicates(data) ==
    CASE data.k = "dict" ->
            LET d1 == IF CONTENT \in DOMAIN data.d
                      THEN LET popped == Drop(data.d, {CDATA})
                           IN  Drop(popped, Imp_keys_to_remove(popped))
                      ELSE data.d
            IN  Dict([x \in DOMAIN d1 |-> Imp_clean_mixed_content_duplicates(d1[x])])
      [] data.k = "list" ->
            List([i \in 1..Len(data.l) |-> Imp_clean_mixed_content_duplicates(data.l[i])])
      [] OTHER -> data

\* the try block: json.loads, data.update, del.  JSONDecodeError is caught;
\* update() with a value that is no mapping raises TypeError, which is not.
Imp_Merge(d) ==
    IF AUX \notin DOMAIN d THEN Dict(d)
    ELSE LET s == d[AUX]
         IN  IF s.k = "txt" THEN Dict(d)
             ELSE IF s.k = "json" /\ s.j.k = "dict"
                  THEN Dict(Drop(Update(d, s.j.d), {AUX}))
             ELSE IF s.k = "json" /\ s.j \in {List(<<>>), Txt(<<>>)}
                  THEN Dict(Drop(d, {AUX}))
                  ELSE Raised

RECURSIVE Imp_extract_mixed_content_from_json(_)
Imp_extract_mixed_content_from_json(data) ==
    CASE data.k = "dict" ->
            LET m == Imp_Merge(data.d)
            IN  IF m = Raised THEN Raised
                ELSE LET result == [x \in DOMAIN m.d |->
                                      Imp_extract_mixed_content_from_json(m.d[x])]
                     IN  IF \E x \in DOMAIN result : result[x] = Raised
                         THEN Raised
                         ELSE Imp_clean_mixed_content_duplicates(Dict(result))
      [] data.k = "list" ->
            LET items == [i \in 1..Len(data.l) |->
                            Imp_extract_mixed_content_from_json(data.l[i])]
            IN  IF \E i \in 1..Len(items) : items[i] = Raised
                THEN Raised
                ELSE List(items)
      [] OTHER -> data

\* entry_id.split('__')[0] if '__' in entry_id else 'unknown'
Imp_Wb(entry_id) ==
    IF \E i \in 1..Len(entry_id) : entry_id[i] = "__"
    THEN SplitHead(entry_id)
    ELSE <<"unknown">>

RECURSIVE Imp_MarkAll(_, _)
\* the loop of handle_mixed_content_elements over the elements it visits
Imp_MarkAll(t, work) ==
    IF work = <<>> THEN t
    ELSE LET e == Node(t, Head(work))
         IN  Imp_MarkAll(IF Imp_IsMixed(e)
                     THEN SetAttr(t, Head(work), AUX, Dumps(Imp_serialize_mixed_content(e)))
                     ELSE t,
                     Tail(work))

Imp_handle_mixed_content_elements(t) == Imp_MarkAll(t, Imp_WorkList(t))

\* the tree as tei_to_json leaves it, and the value it returns (or Raised)
Imp_tei_to_json(t) ==
    LET marked == Imp_handle_mixed_content_elements(t)
    IN  [tree |-> marked,
         data |-> Imp_extract_mixed_content_from_json(
                      Imp_xmltodict_parse(Imp_ReplaceMarkup(tostring(marked))))]

\* the record parse_tei_file returns, or Raised
Imp_parse_tei_file(t) ==
    LET entry_id    == extract_text(EntryIds(t))
        lemma       == extract_text(ChildTexts(t, "form", <<"lemma">>, "orth"))
        variants    == AsSet(ChildTexts(t, "form", <<"variant">>, "orth")
                             \o ChildTexts(t, "form", <<"search">>, "orth"))
        definitions == ChildTexts(t, "sense", <<>>, "def")
        regions     == AsSet(SelfTexts(t, "usg", <<"geographic">>))
        run         == Imp_tei_to_json(t)
        examples    == ChildTexts(run.tree, "cit", <<"example">>, "quote")
    IN  IF entry_id = <<>> \/ run.data = Raised
        THEN Raised
        ELSE [k              |-> "record",
              id             |-> entry_id,
              wb             |-> Imp_Wb(entry_id),
              lemma          |-> lemma,
              lemma_variants |-> variants,
              definitions    |-> definitions,
              regions        |-> regions,
              data           |-> run.data,
              tei_xml        |-> tostring(run.tree),
              search_text    |-> Join(<<lemma>> \o SetToSeq(variants) \o definitions
                                      \o SubSeq(examples, 1,
                                                IF Len(examples) < MaxExamples
                                                THEN Len(examples) ELSE MaxExamples))]

-----------------------------------------------------------------------------
\* Input documents: an entry with one element under it, which has up to MaxKids
\* children, each of which may have a child of its own.

NoAttr == EmptyMap

Attr(name, tokens) == name :> Txt(tokens)

Hi(tail) == Elem(T("hi"), NoAttr, <<"x">>, <<>>, tail)

DefElems ==
    {Elem(T("def"), NoAttr, text, kids, <<>>) :
        text \in {<<>>, <<"D">>},
        kids \in {<<>>, <<Hi(<<>>)>>, <<Hi(<<"y">>)>>}}

RefElems ==
    {Elem(T("ref"), attrib, <<"r">>, <<>>, tail) :
        attrib \in {NoAttr, Attr(<<"type">>, <<"bibl">>), Attr(<<XML_NS, "id">>, <<"r1">>)},
        tail \in {<<>>, <<"B">>}}
    \cup {Elem(T("ref"), NoAttr, <<"r">>, <<>>, <<" ">>)}

SeqsUpTo(S, n) == UNION {[1..m -> S] : m \in 0..n}

\* up to n children: refs, with or without a def in front of them
Kids(n) ==
    SeqsUpTo(RefElems, n)
    \cup {<<d>> \o s : d \in DefElems, s \in SeqsUpTo(RefElems, n - 1)}

TopElems ==
    {Elem(T(tag), at[1], at[2], kids, <<>>) :
        tag \in {"sense", "note", "usg"},
        at \in {<<NoAttr, <<>> >>, <<NoAttr, <<" ">> >>, <<Attr(<<"n">>, <<"1">>), <<"A", " ">> >>},
        kids \in Kids(MaxKids)}

\* documents in which an element already carries the auxiliary attribute
AuxValues ==
    {Txt(<<"garbage">>), Dumps(Num(5)), Dumps(Dict(<<"a">> :> Txt(<<"b">>)))}

AuxKids ==
    {Elem(T("ref"), AUX :> v, <<"r">>, <<>>, <<"B">>) : v \in AuxValues}
    \cup {Elem(T("def"), NoAttr, <<"D">>, <<Hi(<<"y">>)>>, <<>>)}

AuxTopElems ==
    {Elem(T(tag), attrib, text, kids, <<>>) :
        tag \in {"note", "usg"},
        attrib \in {NoAttr} \cup {AUX :> v : v \in AuxValues},
        text \in {<<>>, <<"A">>},
        kids \in SeqsUpTo(AuxKids, MaxKids)}

\* documents whose text, tails and attribute values name the reserved
\* attributes
ReservedElems ==
    {Elem(T(tag), NoAttr, text,
          <<Elem(T("ref"), attrib, <<"xml:id">>, <<>>, tail)>>, <<>>) :
        tag \in {"note", "usg"},
        text \in {<<>>, <<"xml:lang", " ">>},
        attrib \in {NoAttr, Attr(<<"target">>, <<"xml:id">>)},
        tail \in {<<>>, <<"xml:id">>}}

Entry(top) == Elem(T("entry"), Attr(<<XML_NS, "id">>, <<"DWB", "__", "wort1">>), <<>>, <<top>>, <<>>)

Documents == {Entry(top) : top \in TopElems \cup AuxTopElems \cup ReservedElems}

-----------------------------------------------------------------------------
\* parse_tei_file: tei_to_json(tree), then the serialisation kept as tei_xml

None == [k |-> "none"]

Init ==
    /\ src \in Documents
    /\ tree = src
    /\ pc = "start"
    /\ todo = <<>>
    /\ elem = <<>>
    /\ mixed = None
    /\ xml_str = None
    /\ json_data = None
    /\ tei_xml = None
    /\ mode = "single"
    /\ files = <<>>
    /\ pos = 1
    /\ outputs = <<>>
    /\ converted = 0
    /\ failed = 0
    /\ db = EmptyMap

\* handle_mixed_content_elements is entered
BeginMarking ==
    /\ pc = "start"
    /\ pc' = "marking"
    /\ todo' = WorkList(tree)
    /\ UNCHANGED <<src, tree, elem, mixed, xml_str, json_data, tei_xml>>
    /\ UNCHANGED batchVars

\* one iteration of the inner loop of handle_mixed_content_elements
MarkElement ==
    /\ pc = "marking"
    /\ todo # <<>>
    /\ elem' = Head(todo)
    /\ todo' = Tail(todo)
    /\ LET e == Node(tree, Head(todo))
       IN  IF IsMixed(e)
           THEN /\ mixed' = serialize_mixed_content(e)
                /\ tree' = SetAttr(tree, Head(todo), AUX, Dumps(mixed'))
           ELSE /\ mixed' = None
                /\ tree' = tree
    /\ UNCHANGED <<pc, src, xml_str, json_data, tei_xml>>
    /\ UNCHANGED batchVars

\* etree.tostring(tree) and the two str.replace calls
Serialize ==
    /\ pc = "marking"
    /\ todo = <<>>
    /\ pc' = "serialized"
    /\ xml_str' = ReplaceMarkup(tostring(tree))
    /\ UNCHANGED <<src, tree, todo, elem, mixed, json_data, tei_xml>>
    /\ UNCHANGED batchVars

\* xmltodict.parse
GenericConvert ==
    /\ pc = "serialized"
    /\ pc' = "generic"
    /\ json_data' = xmltodict_parse(xml_str)
    /\ UNCHANGED <<src, tree, todo, elem, mixed, xml_str, tei_xml>>
    /\ UNCHANGED batchVars

\* extract_mixed_content_from_json; an exception leaves parse_tei_file
Reconcile ==
    /\ pc = "generic"
    /\ LET r == extract_mixed_content_from_json(json_data)
       IN  IF r = Raised
           THEN pc' = "raised" /\ json_data' = json_data
           ELSE pc' = "reconciled" /\ json_data' = r
    /\ UNCHANGED <<src, tree, todo, elem, mixed, xml_str, tei_xml>>
    /\ UNCHANGED batchVars

\* tei_xml = etree.tostring(tree, ...), after tei_to_json has returned
KeepTeiXml ==
    /\ pc = "reconciled"
    /\ pc' = "done"
    /\ tei_xml' = tostring(tree)
    /\ UNCHANGED <<src, tree, todo, elem, mixed, xml_str, json_data>>
    /\ UNCHANGED batchVars

Next ==
    \/ BeginMarking
    \/ MarkElement
    \/ Serialize
    \/ GenericConvert
    \/ Reconcile
    \/ KeepTeiXml

Spec == Init /\ [][Next]_vars

-----------------------------------------------------------------------------
\* convert_directory and import_batch over a list of files

\* Largest number of files in a run.
MaxFiles == 3

EntryOf(attrib, kids) == Elem(T("entry"), attrib, <<>>, kids, <<>>)

XmlId(tokens) == Attr(<<XML_NS, "id">>, tokens)

Form(ty, orth) ==
    Elem(T("form"), Attr(<<"type">>, <<ty>>), <<>>,
         <<Elem(T("orth"), NoAttr, orth, <<>>, <<>>)>>, <<>>)

NoteWithRef ==
    Elem(T("note"), NoAttr, <<"A", " ">>,
         <<Elem(T("ref"), NoAttr, <<"r">>, <<>>, <<"B">>)>>, <<>>)

\* the files of a run: entries with and without an identifier, with one, two
\* or no separator in it, and one whose auxiliary value makes tei_to_json raise
BatchDocs ==
    {EntryOf(XmlId(<<"DWB", "__", "wort1">>),
             <<Form("lemma", <<"Wort">>), Form("variant", <<"Wortt">>),
               Elem(T("sense"), NoAttr, <<>>,
                    <<Elem(T("def"), NoAttr, <<"D">>, <<Hi(<<"y">>)>>, <<>>)>>, <<>>),
               Elem(T("usg"), Attr(<<"type">>, <<"geographic">>), <<"Bayern">>, <<>>, <<>>)>>),
     EntryOf(XmlId(<<"standalone">>), <<NoteWithRef>>),
     EntryOf(XmlId(<<"A", "__", "b", "__", "c">>), <<NoteWithRef>>),
     EntryOf(XmlId(<<"__", "x">>), <<NoteWithRef>>),
     EntryOf(NoAttr, <<NoteWithRef>>),
     EntryOf(XmlId(<<"X", "__", "y">>),
             <<Elem(T("usg"), AUX :> Dumps(Num(5)), <<"A">>, <<>>, <<>>)>>)}

InitBatch ==
    /\ mode \in {"convert", "import"}
    /\ files \in UNION {[1..n -> BatchDocs] : n \in 1..MaxFiles}
    /\ pos = 1
    /\ outputs = <<>>
    /\ converted = 0
    /\ failed = 0
    /\ db = EmptyMap
    /\ pc = "batch"
    /\ src = None
    /\ tree = None
    /\ todo = <<>>
    /\ elem = <<>>
    /\ mixed = None
    /\ xml_str = None
    /\ json_data = None
    /\ tei_xml = None

\* one iteration of the loop of convert_directory: convert_file(filepath),
\* which writes the record to the file's output path or catches the exception
ConvertFile ==
    /\ mode = "convert"
    /\ pos <= Len(files)
    /\ LET data == parse_tei_file(files[pos])
       IN  IF data = Raised
           THEN /\ failed' = failed + 1
                /\ UNCHANGED <<converted, outputs>>
           ELSE /\ converted' = converted + 1
                /\ outputs' = Append(outputs, [file |-> pos, row |-> data])
                /\ UNCHANGED failed
    /\ pos' = pos + 1
    /\ UNCHANGED <<mode, files, db>>
    /\ UNCHANGED coreVars

\* one iteration of the loop of import_batch: the record is appended to
\* batch_data, or the exception is caught and counted
ImportParse ==
    /\ mode = "import"
    /\ pos <= Len(files)
    /\ LET data == Imp_parse_tei_file(files[pos])
       IN  IF data = Raised
           THEN /\ failed' = failed + 1
                /\ UNCHANGED outputs
           ELSE /\ outputs' = Append(outputs,
                                     [file |-> pos,
                                      row  |-> [data EXCEPT !.data = Dumps(data.data)]])
                /\ UNCHANGED failed
    /\ pos' = pos + 1
    /\ UNCHANGED <<mode, files, converted, db>>
    /\ UNCHANGED coreVars

RECURSIVE Upsert(_, _)
\* INSERT ... ON CONFLICT (id) DO UPDATE, one row after the other
Upsert(table, rows) ==
    IF rows = <<>> THEN table
    ELSE Upsert(Put(table, Head(rows).row.id, Head(rows).row), Tail(rows))

\* after the loop of import_batch: executemany when batch_data is not empty,
\* then  return len(batch_data), failed
ImportExecute ==
    /\ mode = "import"
    /\ pos = Len(files) + 1
    /\ mode' = "imported"
    /\ db' = IF outputs # <<>> THEN Upsert(db, outputs) ELSE db
    /\ converted' = Len(outputs)
    /\ UNCHANGED <<files, pos, outputs, failed>>
    /\ UNCHANGED coreVars

NextBatch ==
    \/ ConvertFile
    \/ ImportParse
    \/ ImportExecute

SpecBatch == InitBatch /\ [][NextBatch]_vars

-----------------------------------------------------------------------------
\* Properties of the marking pass and of the serializer

\* the element MarkElement has just annotated, as serialize_mixed_content saw
\* it (elem.set changes only the element's own attributes afterwards)
Marked == Node(tree, elem)

JustMarked == pc = "marking" /\ mixed # None

Blank(t) == \A i \in 1..Len(t) : t[i] = " "

\* where the segment of child i is expected in the content list
SegmentIndex(e, i) ==
    (IF Blank(e.text) THEN 0 ELSE 1) + i
    + Cardinality({j \in 1..(i - 1) : ~Blank(e.children[j].tail)})

\* C1: the content list of a serialized element is its parts in document
\* order: the leading text if non-blank, then per child its Element segment,
\* immediately followed by a Text segment with the child's tail iff the tail
\* is non-blank; nothing else is in the list.
C1_OrderPreserved ==
    JustMarked =>
        LET e == Marked
            c == mixed.d[CONTENT].l
            n == Len(e.children)
        IN  /\ Len(c) = (IF Blank(e.text) THEN 0 ELSE 1) + n
                        + Cardinality({j \in 1..n : ~Blank(e.children[j].tail)})
            /\ ~Blank(e.text) => c[1] = TextSeg(e.text)
            /\ \A i \in 1..n :
                  /\ c[SegmentIndex(e, i)] = ChildData(e.children[i])
                  /\ ~Blank(e.children[i].tail) =>
                        c[SegmentIndex(e, i) + 1] = TextSeg(e.children[i].tail)

\* leading text A, child X with tail B, then child Y without tail:
\* [Text(A), Element(X), Text(B), Element(Y)]
C1_Witness ==
    /\ JustMarked
    /\ ~Blank(Marked.text)
    /\ Len(Marked.children) = 2
    /\ ~Blank(Marked.children[1].tail)
    /\ Blank(Marked.children[2].tail)
    /\ Marked.children[2].tail # <<>>
    /\ Len(mixed.d[CONTENT].l) = 4

\* a name without its namespace, whichever namespace it is
LocalName(name) == <<name[Len(name)]>>

\* C4: the Element segment of every child has type = the child's tag without
\* namespace, value = the child's leading text, and one key per attribute of
\* the child with the namespace removed from the key.
C4_ElementSegment ==
    JustMarked =>
        LET e == Marked
            c == mixed.d[CONTENT].l
        IN  \A i \in 1..Len(e.children) :
               LET child == e.children[i]
                   seg   == c[SegmentIndex(e, i)].d
               IN  /\ seg[TYPE] = Txt(LocalName(child.tag))
                   /\ seg[VALUE] = Txt(child.text)
                   /\ \A a \in DOMAIN child.attrib :
                         /\ LocalName(a) \in DOMAIN seg
                         /\ seg[LocalName(a)] = child.attrib[a]
                   /\ DOMAIN seg = {TYPE, VALUE}
                                   \cup {LocalName(a) : a \in DOMAIN child.attrib}

EligibleTags == {"note", "def", "quote", "cit", "bibl", "etym", "sense"}

\* the classifier's condition, read off the input document
EligibleInSrc(p) ==
    LET e == Node(src, p)
    IN  /\ \E name \in EligibleTags : e.tag = <<TEI, name>>
        /\ \/ ~Blank(e.text) /\ e.children # <<>>
           \/ \E i \in DOMAIN e.children : ~Blank(e.children[i].tail)

MarkingDone == pc # "start" /\ todo = <<>>

\* the pass gave the element at p the auxiliary attribute
Annotated(p) ==
    /\ AUX \in DOMAIN Node(tree, p).attrib
    /\ Node(tree, p).attrib # Node(src, p).attrib

\* C5: after the marking pass an element has been given the auxiliary
\* attribute iff its tag is in the eligible set and (its leading text is
\* non-blank and it has a child, or a child has a non-blank tail); no other
\* element is touched.
C5_MarkedIffEligible ==
    MarkingDone =>
        \A p \in PathSet(src) :
            /\ Annotated(p) <=> EligibleInSrc(p)
            /\ ~EligibleInSrc(p) => Node(tree, p).attrib = Node(src, p).attrib

\* an element of an eligible tag with a child but only blank text and tails
\* stays unmarked, inside an element that is marked
C5_Witness ==
    /\ MarkingDone
    /\ \E p, q \in PathSet(src) :
          /\ Annotated(p)
          /\ ~Annotated(q)
          /\ Node(src, q).tag = T("def")
          /\ Node(src, q).children # <<>>

\* C6: the value attached to an element is the serialization of that element
\* as it was in the input document, whatever was annotated before it.
C6_IndependentOfOrder ==
    JustMarked => mixed = serialize_mixed_content(Node(src, elem))

-----------------------------------------------------------------------------
\* Properties of the tree returned by tei_to_json

Returned == pc \in {"reconciled", "done"}

\* what the generic converter produced for this document
Generic == xmltodict_parse(xml_str)

RECURSIVE DictNodes(_)
\* the mappings of a JSON tree, at any depth
DictNodes(v) ==
    CASE v.k = "dict" -> {v} \cup UNION {DictNodes(v.d[x]) : x \in DOMAIN v.d}
      [] v.k = "list" -> UNION {DictNodes(v.l[i]) : i \in 1..Len(v.l)}
      [] OTHER        -> {}

HasContentList(n) == CONTENT \in DOMAIN n.d /\ n.d[CONTENT].k = "list"

\* the element under the entry, and its node in a JSON tree
Top == src.children[1]

TopNode(j) ==
    LET v == j.d[<<"entry">>].d[QName(Top.tag)]
    IN  IF v.k = "list" THEN v.l[1] ELSE v

\* C2: a node with a content list has no non-'@' key naming the tag of a child
\* element that a segment of the list represents (nor any non-'@' key equal to
\* a segment's type).
C2_NoDuplication ==
    Returned =>
        /\ \A n \in DictNodes(json_data) :
              HasContentList(n) =>
                 \A key \in DOMAIN n.d \ {CONTENT, TYPE} :
                    ~StartsWithAt(key) =>
                       \A i \in 1..Len(n.d[CONTENT].l) :
                          n.d[CONTENT].l[i].d[TYPE] # Txt(key)
        /\ LET n == TopNode(json_data)
           IN  (Annotated(<<1>>) /\ n.k = "dict" /\ HasContentList(n)) =>
                  \A i \in 1..Len(Top.children) :
                     QName(Top.children[i].tag) \notin DOMAIN n.d

\* C3: a node with a content list has only '@' keys, content and type.
C3_OnlyAttributeKeys ==
    Returned =>
        \A n \in DictNodes(json_data) :
           HasContentList(n) =>
              \A key \in DOMAIN n.d : StartsWithAt(key) \/ key \in {CONTENT, TYPE}

\* C7: reconciling the reconciled tree again returns the same tree.
C7_Idempotent ==
    Returned => extract_mixed_content_from_json(json_data) = json_data

\* reconciliation changed the generic tree, and a segment of a merged content
\* list was itself merged
C7_Witness ==
    /\ pc = "reconciled"
    /\ json_data # Generic
    /\ \E n \in DictNodes(json_data) :
          /\ HasContentList(n)
          /\ \E i \in 1..Len(n.d[CONTENT].l) : HasContentList(n.d[CONTENT].l[i])

RECURSIVE HasKey(_, _)
\* key occurs in v at some depth
HasKey(v, key) ==
    CASE v.k = "dict" -> key \in DOMAIN v.d \/ \E x \in DOMAIN v.d : HasKey(v.d[x], key)
      [] v.k = "list" -> \E i \in 1..Len(v.l) : HasKey(v.l[i], key)
      [] OTHER        -> FALSE

SrcHasAux == \E p \in PathSet(src) : AUX \in DOMAIN Node(src, p).attrib

\* C8: for an input without the auxiliary attribute, the returned tree has no
\* key mixed-content-json at any depth.
C8_NoAuxInOutput ==
    (Returned /\ ~SrcHasAux) => ~HasKey(json_data, AUX)

\* an element was serialized after one of its children had been annotated, so
\* that a segment of its content list carried the auxiliary key
C8_Witness ==
    /\ Returned
    /\ ~SrcHasAux
    /\ Annotated(<<1>>)
    /\ \E i \in 1..Len(Top.children) :
          AUX \in DOMAIN Node(tree, <<1>>).attrib[AUX].j.d[CONTENT].l[i].d

\* C9: tei_xml is the serialization of the document as it was parsed.
C9_TeiXmlIsInput ==
    pc = "done" => tei_xml = tostring(src)

\* the auxiliary value s is not the encoding of a mapping with a content list
Unparseable(s) ==
    ~(s.k = "json" /\ s.j.k = "dict" /\ CONTENT \in DOMAIN s.j.d
      /\ s.j.d[CONTENT].k = "list")

RECURSIVE KeptWhereUnparseable(_, _)
\* every node of g with an unparseable auxiliary value has, in r, exactly the
\* keys of g and the same str values
KeptWhereUnparseable(g, r) ==
    CASE g.k = "dict" /\ r.k = "dict" ->
            /\ (AUX \in DOMAIN g.d /\ Unparseable(g.d[AUX])) =>
                  /\ DOMAIN r.d = DOMAIN g.d
                  /\ \A x \in DOMAIN g.d : IsStr(g.d[x]) => r.d[x] = g.d[x]
            /\ \A x \in DOMAIN g.d \cap DOMAIN r.d : KeptWhereUnparseable(g.d[x], r.d[x])
      [] g.k = "list" /\ r.k = "list" /\ Len(g.l) = Len(r.l) ->
            \A i \in 1..Len(g.l) : KeptWhereUnparseable(g.l[i], r.l[i])
      [] OTHER -> TRUE

\* C10: an auxiliary value that cannot be parsed into the segment structure
\* raises no error, leaves its node with the keys and values of the generic
\* tree, and every parseable auxiliary value is still merged.
C10_UnparseableSkipped ==
    /\ pc # "raised"
    /\ Returned =>
          /\ KeptWhereUnparseable(Generic, json_data)
          /\ \A n \in DictNodes(json_data) :
                AUX \in DOMAIN n.d => Unparseable(n.d[AUX])

-----------------------------------------------------------------------------
\* Properties of the always-list set

\* the children of e whose tag is name
ChildrenNamed(e, name) == {i \in 1..Len(e.children) : QName(e.children[i].tag) = name}

-----------------------------------------------------------------------------
\* Properties of the elements the classifier leaves alone

\* v is a plain scalar holding the text t (stripped by the generic converter,
\* verbatim in a segment) and, where t has no reserved name in it, exactly t
ScalarOf(v, t) == v.k = "txt" /\ (ReplaceSeq(t) = t => v.t = t)

\* the value of a non-eligible element e in the returned tree is v
PlainValue(e, v) ==
    /\ v.k = "dict" => ~HasContentList(v)
    /\ (e.children = <<>> /\ ~Blank(e.text)) =>
          IF DOMAIN e.attrib = {}
          THEN ScalarOf(v, Strip(e.text))
          ELSE v.k = "dict" /\ CDATA \in DOMAIN v.d /\ ScalarOf(v.d[CDATA], Strip(e.text))

\* the item of child i of the element under the entry, by its tag key
KeyedChild(n, i) ==
    LET name == QName(Top.children[i].tag)
        v    == n.d[name]
        rank == Cardinality({j \in 1..i : QName(Top.children[j].tag) = name})
    IN  IF v.k = "list" THEN v.l[rank] ELSE v

\* C12: an element with only text and no children yields a value field and
\* no content list: <def>D</def> yields {"value": "D"}.
C12_ValueField ==
    (Returned /\ ~SrcHasAux) =>
        \A i \in 1..Len(Top.children) :
            LET c == Top.children[i]
                n == TopNode(json_data)
            IN  (c.children = <<>> /\ ~Blank(c.text) /\ DOMAIN c.attrib = {}) =>
                    (IF Annotated(<<1>>)
                     THEN n.d[CONTENT].l[SegmentIndex(Top, i)]
                     ELSE KeyedChild(n, i)) = Dict(VALUE :> Txt(c.text))

\* C12 (amended): an element the classifier does not select (only text, or children but
\* no non-blank leading text and no non-blank tail, or a tag outside the
\* eligible set) has no content list in the returned tree, and its text is a
\* plain scalar: the value of its key, the value of its "" key when it has
\* attributes, or the value field of its segment in a merged parent.
C12_NonEligiblePassthrough ==
    (Returned /\ ~SrcHasAux) =>
        LET n == TopNode(json_data)
        IN  /\ ~EligibleInSrc(<<1>>) => PlainValue(Top, n)
            /\ \A i \in 1..Len(Top.children) :
                  ~EligibleInSrc(<<1, i>>) =>
                      LET c == Top.children[i]
                      IN  IF Annotated(<<1>>)
                          THEN LET seg == n.d[CONTENT].l[SegmentIndex(Top, i)]
                               IN  /\ ~HasContentList(seg)
                                   /\ VALUE \in DOMAIN seg.d
                                   /\ ScalarOf(seg.d[VALUE], c.text)
                          ELSE PlainValue(c, KeyedChild(n, i))

\* <def>D</def> in an element that is not merged has the value "D"
C12_Witness ==
    /\ Returned
    /\ ~SrcHasAux
    /\ ~Annotated(<<1>>)
    /\ \E i \in 1..Len(Top.children) :
          /\ Top.children[i] = Elem(T("def"), NoAttr, <<"D">>, <<>>, <<>>)
          /\ KeyedChild(TopNode(json_data), i) = Txt(<<"D">>)

-----------------------------------------------------------------------------
\* Properties of a run over a list of files

\* the files the loop has gone through
Processed == 1..(pos - 1)

\* the document has no entry with an xml:id
NoEntryId(doc) == ~(doc.tag = T("entry") /\ <<XML_NS, "id">> \in DOMAIN doc.attrib)

\* an element of the document carries an auxiliary value that is no mapping
BadAux(doc) ==
    \E p \in PathSet(doc) :
        /\ AUX \in DOMAIN Node(doc, p).attrib
        /\ Node(doc, p).attrib[AUX] = Dumps(Num(5))

RunDone == (mode = "convert" /\ pos = Len(files) + 1) \/ mode = "imported"

\* C13: in convert_directory and in import_batch a document whose parsing
\* fails (in particular one without an entry identifier: no default
\* identifier is used) is counted as failed and has no output record; the
\* other documents are still processed; successes plus failures is the number
\* of files.
C13_FailureIsolation ==
    /\ Len(outputs) + failed = Cardinality(Processed)
    /\ failed = Cardinality({i \in Processed : NoEntryId(files[i]) \/ BadAux(files[i])})
    /\ \A i \in Processed :
          IF NoEntryId(files[i]) \/ BadAux(files[i])
          THEN \A j \in 1..Len(outputs) : outputs[j].file # i
          ELSE \E j \in 1..Len(outputs) :
                  /\ outputs[j].file = i
                  /\ outputs[j].row.id = files[i].attrib[<<XML_NS, "id">>].t
    /\ \A j \in 1..Len(outputs) : outputs[j].row.id # <<>>
    /\ RunDone =>
          /\ converted + failed = Len(files)
          /\ converted = Len(outputs)
    /\ mode = "imported" =>
          DOMAIN db = {outputs[j].row.id : j \in 1..Len(outputs)}

\* a file without an identifier between two files that are converted
C13_Witness ==
    /\ RunDone
    /\ Len(files) = 3
    /\ NoEntryId(files[2])
    /\ failed = 1
    /\ converted = 2
    /\ outputs[2].file = 3

-----------------------------------------------------------------------------
\* Properties of tei_to_json as an operation on the tree

\* C14: tei_to_json run a second time on the same document tree returns the
\* JSON tree it returned the first time.
C14_SecondRunSame ==
    (Returned /\ ~SrcHasAux) => tei_to_json(tree).data = json_data

-----------------------------------------------------------------------------
\* Properties of the generic tree

\* the elements of the tree down to the children of the element under the
\* entry, each with its node in the generic tree
GenericPairs ==
    LET en == json_data.d[<<"entry">>]
        tn == TopNode(json_data)
    IN  {<<tree, en>>, <<tree.children[1], tn>>}
        \cup {<<tree.children[1].children[i], KeyedChild(tn, i)>> :
                 i \in 1..Len(Top.children)}

\* C15: in the generic tree every attribute name of every element is under
\* the key '@' + name, the namespace stripped.
C15_AtKeys ==
    pc = "generic" =>
        \A pr \in GenericPairs :
            \A a \in DOMAIN pr[1].attrib :
                /\ pr[2].k = "dict"
                /\ At(LocalName(a)) \in DOMAIN pr[2].d

\* C15 (amended): in the generic tree every attribute of every element is
\* under its qualified name as a key without any prefix character (xml:id
\* under xmlId), holding the attribute's value as serialised; no key of the
\* generic tree starts with '@'.
C15_PlainKeys ==
    pc = "generic" =>
        /\ \A pr \in GenericPairs :
              \A a \in DOMAIN pr[1].attrib :
                  /\ pr[2].k = "dict"
                  /\ ReplaceSeq(QName(a)) \in DOMAIN pr[2].d
                  /\ pr[2].d[ReplaceSeq(QName(a))] = ReplaceVal(pr[1].attrib[a])
        /\ \A n \in DictNodes(json_data) : \A key \in DOMAIN n.d : ~StartsWithAt(key)

\* a child with the attribute type, in a parent with the attribute n
C15_Witness ==
    /\ pc = "generic"
    /\ <<"n">> \in DOMAIN Top.attrib
    /\ \E i \in 1..Len(Top.children) :
          /\ <<"type">> \in DOMAIN Top.children[i].attrib
          /\ KeyedChild(TopNode(json_data), i).d[<<"type">>] = Txt(<<"bibl">>)

-----------------------------------------------------------------------------
\* Properties of the reserved rename

RECURSIVE RenameNames(_)
\* the serialised document with xml:id and xml:lang renamed where they are
\* attribute names, and nothing else changed
RenameNames(x) ==
    [name     |-> x.name,
     attrs    |-> [a \in {ReplaceSeq(b) : b \in DOMAIN x.attrs} |->
                     x.attrs[CHOOSE b \in DOMAIN x.attrs : ReplaceSeq(b) = a]],
     text     |-> x.text,
     children |-> [i \in 1..Len(x.children) |-> RenameNames(x.children[i])],
     tail     |-> x.tail]

\* C16: the reserved rename changes attribute names only: every element text,
\* tail text and attribute value, the auxiliary attribute's encoded content
\* included, is in the text handed to the generic converter, and so in the
\* returned tree, as it is in the document.
C16_RenameNamesOnly ==
    /\ pc = "serialized" => xml_str = RenameNames(tostring(tree))
    /\ Returned =>
          json_data = extract_mixed_content_from_json(
                          xmltodict_parse(RenameNames(tostring(tree))))

-----------------------------------------------------------------------------
\* Properties of the record's fields

\* C17: wb is the part of the identifier before the first "__" when the
\* identifier contains one, and "unknown" otherwise: "DWB__wort1" gives
\* "DWB", "standalone" gives "unknown".
C17_WbFromId ==
    \A j \in 1..Len(outputs) :
        LET id   == outputs[j].row.id
            wb   == outputs[j].row.wb
            seps == {i \in 1..Len(id) : id[i] = "__"}
        IN  /\ IF seps = {}
               THEN wb = <<"unknown">>
               ELSE \E first \in seps :
                       /\ \A i \in seps : first <= i
                       /\ wb = SubSeq(id, 1, first - 1)
            /\ id = <<"DWB", "__", "wort1">> => wb = <<"DWB">>
            /\ id = <<"standalone">> => wb = <<"unknown">>

\* records of an identifier with two separators and of one with none
C17_Witness ==
    /\ mode = "convert"
    /\ \E i, j \in 1..Len(outputs) :
          /\ outputs[i].row.id = <<"A", "__", "b", "__", "c">>
          /\ outputs[i].row.wb = <<"A">>
          /\ outputs[j].row.id = <<"standalone">>
          /\ outputs[j].row.wb = <<"unknown">>

-----------------------------------------------------------------------------
\* Properties of the order of the reconciliation pass

\* q is a node strictly below p
Below(p, q) == Len(p) < Len(q) /\ SubSeq(q, 1, Len(p)) = p

\* the step happens before position i of the run
Before(s, i, st) == \E j \in 1..(i - 1) : s[j] = st

\* C18: the reconciliation is bottom-up: whenever the duplicates check reads
\* the keys and the content list of a node, every node below it has already
\* had its auxiliary value merged and its own duplicates check made, so the
\* check never reads a descendant whose auxiliary value is still to be merged.
C18_BottomUp ==
    Returned =>
        LET run == ExtractSteps(Generic, <<>>)
            s   == run.s
        IN  /\ run.v = json_data
            /\ \A i \in 1..Len(s) :
                  s[i].op = "dedup" =>
                      \A k \in 1..Len(s) :
                          Below(s[i].at, s[k].at) =>
                              /\ Before(s, i, Step("merge", s[k].at))
                              /\ Before(s, i, Step("dedup", s[k].at))

\* an element merged inside an element that is merged: the child's merge
\* precedes the parent's check
C18_Witness ==
    /\ Returned
    /\ ~SrcHasAux
    /\ Annotated(<<1>>)
    /\ Annotated(<<1, 1>>)
    /\ LET s == ExtractSteps(Generic, <<>>).s
       IN  \E i, j \in 1..Len(s) :
              /\ i < j
              /\ s[i].op = "merge"
              /\ s[j].op = "dedup"
              /\ Below(s[j].at, s[i].at)
              /\ Len(s[j].at) = 3

-----------------------------------------------------------------------------
\* Properties of the text kept by the reconciliation

RECURSIVE TokensOf(_)
\* the tokens of the strings of a JSON tree
TokensOf(v) ==
    CASE v.k = "txt"  -> {v.t[i] : i \in 1..Len(v.t)}
      [] v.k = "dict" -> UNION {TokensOf(v.d[x]) : x \in DOMAIN v.d}
      [] v.k = "list" -> UNION {TokensOf(v.l[i]) : i \in 1..Len(v.l)}
      [] OTHER        -> {}

RECURSIVE SubtreeText(_)
\* the non-blank tokens of the text inside an element
SubtreeText(e) ==
    {e.text[i] : i \in 1..Len(e.text)}
    \cup UNION {SubtreeText(e.children[i]) \cup
                  {e.children[i].tail[j] : j \in 1..Len(e.children[i].tail)} :
                i \in 1..Len(e.children)}

\* the node of the element under the entry (path <<1>>) or of its child i
\* (path <<1, i>>) in the returned tree
NodeOf(p) ==
    LET n == TopNode(json_data)
    IN  IF Len(p) = 1 THEN n
        ELSE IF Annotated(<<1>>) THEN n.d[CONTENT].l[SegmentIndex(Top, p[2])]
        ELSE KeyedChild(n, p[2])

\* C19: for every eligible element, every non-blank text inside its subtree,
\* at any depth, is present in the element's node of the returned tree (as
\* the serialisation wrote it).
C19_NoTextLost ==
    (Returned /\ ~SrcHasAux) =>
        \A p \in {<<1>>} \cup {<<1, i>> : i \in 1..Len(Top.children)} :
            EligibleInSrc(p) =>
                \A tok \in SubtreeText(Node(src, p)) \ {" "} :
                    ReplaceTok(tok) \in TokensOf(NodeOf(p))

-----------------------------------------------------------------------------
\* Properties of the two copies of the core

\* the two copies agree on the files of a run, those without an identifier
\* included
FilesAgree == \A d \in BatchDocs : Imp_parse_tei_file(d) = parse_tei_file(d)

\* C20: TEIConverter.parse_tei_file and TEIImporter.parse_tei_file either
\* both raise or return records equal in every field, for every document; the
\* importer's copy returns what the converter computes step by step.
C20_CopiesAgree ==
    /\ FilesAgree
    /\ pc = "start" => Imp_parse_tei_file(src) = parse_tei_file(src)
    /\ pc = "done" =>
          LET r == Imp_parse_tei_file(src)
          IN  /\ r # Raised
              /\ r.data = json_data
              /\ r.tei_xml = tei_xml
    /\ pc = "raised" => Imp_parse_tei_file(src) = Raised

\* a document with a merged sense, converted by both copies
C20_Witness ==
    /\ pc = "done"
    /\ Top.tag = T("sense")
    /\ Annotated(<<1>>)
    /\ Annotated(<<1, 1>>)
    /\ Imp_parse_tei_file(src).data = json_data
    /\ HasContentList(TopNode(json_data))

====
